---------------------------- MODULE Spec2Model ----------------------------
(***************************************************************************)
(* Walk-forward retraining and prediction loop of risk_model.ipynb.        *)
(*                                                                         *)
(* Dates are identified with the row positions 0 .. rows-1 of the price    *)
(* panel df (the index common_idx of log_returns).  Table cells are        *)
(* abstracted to "valid" / NaN; a feature or target row is identified by   *)
(* the panel row it was computed for.  Model parameters are abstracted to  *)
(* a version number: every optimizer.step() produces a new version.        *)
(***************************************************************************)
EXTENDS Integers, Sequences, FiniteSets, TLC

(***************************************************************************)
(* Hyperparameters (notebook cell 4), scaled down for exhaustive checking. *)
(* Source values: horizon 7, sequence_length 35, batch_size 64,            *)
(* num_epochs 50, mc_samples 90.  patience and the train fraction keep     *)
(* their source values.                                                    *)
(***************************************************************************)
horizon == 2
sequence_length == 3
batch_size == 16
num_epochs == 5
patience == 3
mc_samples == 2
initial_train_frac_pct == 80

(* Bounds on the inputs. *)
MaxRows == 30
MaxLoss == 2

Losses == 1..MaxLoss
Inf == MaxLoss + 1000

Modules == {"model", "lstm", "dropout", "fc"}

VARIABLES
    rows,               \* len(df) after df.dropna
    pc,                 \* position in the notebook
    features, targets,  \* aligned tables, 0-based position -> panel row
    X_all, y_all,       \* windows and their targets
    initial_train_size, n_steps, results,
    t, train_end_idx, pred_idx,
    X_train, scaler_X, scaler_y,
    params,             \* live parameter storage of model
    opt_steps,          \* number of optimizer.step() calls so far
    best_loss, wait, best_model_state,
    epoch, batch, loss,
    training,           \* nn.Module.training flag of each module
    X_pred_scaled, mc_predictions,
    log7_window,
    epoch_loss, epoch_params,  \* history: per epoch of the current step
    y_pred_std, weights,       \* risk aggregator: allocation
    cov_matrix, corr_matrix    \* risk aggregator: correlation

vars == <<rows, pc, features, targets, X_all, y_all, initial_train_size,
          n_steps, results, t, train_end_idx, pred_idx, X_train, scaler_X,
          scaler_y, params, opt_steps, best_loss, wait, best_model_state,
          epoch, batch, loss, training, X_pred_scaled, mc_predictions,
          log7_window, epoch_loss, epoch_params, y_pred_std, weights,
          cov_matrix, corr_matrix>>

loopvars == <<rows, features, targets, X_all, y_all, initial_train_size,
              n_steps, results, t, train_end_idx, pred_idx, X_train,
              scaler_X, scaler_y, params, opt_steps, best_loss, wait,
              best_model_state, epoch, batch, loss, training, X_pred_scaled,
              mc_predictions, log7_window, epoch_loss, epoch_params>>

riskvars == <<y_pred_std, weights, cov_matrix, corr_matrix>>

---------------------------------------------------------------------------
(* Generic helpers *)

Min(S) == CHOOSE x \in S : \A y \in S : x <= y
Max(S) == CHOOSE x \in S : \A y \in S : x >= y

RECURSIVE SortAsc(_)
SortAsc(S) == IF S = {} THEN <<>>
              ELSE LET m == Min(S) IN <<m>> \o SortAsc(S \ {m})

\* 0-based view of a sequence (Python / iloc positions)
ZeroBased(s) == [i \in 0..(Len(s) - 1) |-> s[i + 1]]

PyLen(f) == Cardinality(DOMAIN f)

\* range(n) as a sequence <<0, ..., n-1>>
PyRange(n) == [i \in 1..(IF n > 0 THEN n ELSE 0) |-> i - 1]

---------------------------------------------------------------------------
(* Feature building and alignment: which panel rows carry a value *)

\* log_returns = np.log(close_df / close_df.shift(1)): row 0 is NaN
LogRetValid(r) == r >= 1

\* rolling(window=w) with min_periods = w over log_returns: panel rows
\* entering the statistic at row r
RollingTerms(r, w) == (r - w + 1)..r

RollingValid(r, w) ==
    /\ r - w + 1 >= 0
    /\ \A k \in RollingTerms(r, w) : LogRetValid(k)

\* realized_vol = log_returns.rolling(horizon).std().shift(-horizon)
RealizedVolValid(M, r) ==
    /\ r + horizon <= M - 1
    /\ RollingValid(r + horizon, horizon)

\* ewm(span, adjust=False).std(): undefined at the first observation
PastStdEwmValid(r) == r >= 2

\* np.log1p(volume).diff().ewm(...).mean()
LiqValid(r) == r >= 1

\* pd.concat([features, targets], axis=1).dropna(), then reset_index
combined(M) ==
    ZeroBased(SortAsc({r \in 0..(M - 1) :
        /\ PastStdEwmValid(r) /\ LogRetValid(r) /\ LiqValid(r)
        /\ RealizedVolValid(M, r)}))

---------------------------------------------------------------------------
(* Sequence windower *)

\* variant: target aligned to the first row of the window
WindowTargetRow_first(i, seq_len) == i

WindowTargetRow(i, seq_len) == i + seq_len - 1

create_sequences(X_df, Y_df, seq_len) ==
    LET n == PyLen(X_df) - seq_len
        idx == 0..(n - 1)
    IN [Xs |-> [i \in idx |-> [k \in 0..(seq_len - 1) |-> X_df[i + k]]],
        Ys |-> [i \in idx |-> Y_df[WindowTargetRow(i, seq_len)]]]

N == PyLen(X_all)

---------------------------------------------------------------------------
LoopStart ==
    /\ features = <<>> /\ targets = <<>>
    /\ X_all = <<>> /\ y_all = <<>>
    /\ initial_train_size = 0 /\ n_steps = 0 /\ results = <<>>
    /\ t = 0 /\ train_end_idx = 0 /\ pred_idx = 0
    /\ X_train = <<>> /\ scaler_X = [fit |-> {}] /\ scaler_y = [fit |-> {}]
    /\ params = 0 /\ opt_steps = 0
    /\ best_loss = Inf /\ wait = 0 /\ best_model_state = [ref |-> "none", copy |-> 0]
    /\ epoch = 0 /\ batch = 0 /\ loss = 0
    /\ training = [m \in Modules |-> TRUE]
    /\ X_pred_scaled = [windows |-> {}, scaler |-> [fit |-> {}]]
    /\ mc_predictions = <<>>
    /\ log7_window = <<>>
    /\ epoch_loss = <<>> /\ epoch_params = <<>>

RiskUnset ==
    /\ y_pred_std = <<>> /\ weights = <<>>
    /\ cov_matrix = <<>> /\ corr_matrix = <<>>

Init ==
    /\ rows \in 1..MaxRows
    /\ pc = "start"
    /\ LoopStart
    /\ RiskUnset

---------------------------------------------------------------------------
(* Model object: mode flags and parameter storage *)

\* variant: the epoch does not switch the model back to training mode
train_skipped(tr) == tr

\* nn.Module.train(): sets training on the module and all its children
train(tr) == [m \in Modules |-> TRUE]

\* nn.Module.eval() == train(False)
eval(tr) == [m \in Modules |-> FALSE]

\* enable_dropout: layer.train() for every nn.Dropout instance among
\* m.modules(); nn.LSTM is not an nn.Dropout instance
enable_dropout(tr) == [tr EXCEPT !["dropout"] = TRUE]

\* VolLSTM_MC.forward: which stochastic units are active during the pass
forward(tr) == [encoder |-> IF tr["lstm"] THEN "train" ELSE "eval",
                head_dropout |-> IF tr["dropout"] THEN "active"
                                 ELSE "inactive"]

\* variant: a new VolLSTM_MC is constructed inside the loop body
model_parameters_fresh(p) == 0

\* model.parameters() of the module created once at line 223: the loop
\* body keeps training the same tensors
model_parameters(p) == p

\* model.state_dict(): the returned tensors are detached views that share
\* storage with the live parameters; no copy is taken
state_dict(p) == [ref |-> "params", copy |-> 0]

TensorValue(sd, p) == IF sd.ref = "params" THEN p ELSE sd.copy

\* model.load_state_dict(sd): copies the tensors of sd into the parameters
load_state_dict(sd, p) == TensorValue(sd, p)

---------------------------------------------------------------------------
(* Walk-forward driver *)

InitialTrainSize(n) == (initial_train_frac_pct * n) \div 100

\* variant: the horizon is not held out at the end
NSteps_noholdout(n) == n - InitialTrainSize(n)

NSteps(n) == n - InitialTrainSize(n) - horizon

\* variant: the slice also takes the window at position k
TrainSlice_inclusive(k, n) == PyRange(IF k + 1 < n THEN k + 1 ELSE n)

\* X_all[:k] as the sequence of window positions it selects
TrainSlice(k, n) == PyRange(IF k < n THEN k ELSE n)

Range(s) == {s[i] : i \in DOMAIN s}

\* StandardScaler().fit(data): remembers the windows it was fitted on
StandardScalerFit(win) == [fit |-> Range(win)]

\* len(train_loader) for DataLoader(batch_size, shuffle=False)
NumBatches(n) == (n + batch_size - 1) \div batch_size

Improved(l, best) == l < best

\* variant: one more non-improving epoch is tolerated
ShouldStop_late(w) == w > patience

ShouldStop(w) == w >= patience

\* variant: one row per block of `horizon` days
log7_blocks(M) ==
    LET kept == ZeroBased(SortAsc({r \in 0..(M - 1) :
                   RollingValid(r, horizon) /\ r % horizon = 0}))
    IN [i \in DOMAIN kept |->
           [date |-> kept[i], terms |-> RollingTerms(kept[i], horizon)]]

\* log_returns.rolling(window=horizon).sum().dropna()
log7(M) ==
    LET kept == ZeroBased(SortAsc({r \in 0..(M - 1) :
                                      RollingValid(r, horizon)}))
    IN [i \in DOMAIN kept |->
           [date |-> kept[i], terms |-> RollingTerms(kept[i], horizon)]]

\* frame.iloc[:k]
ILocHead(frame, k) ==
    [i \in {j \in DOMAIN frame : j < k} |-> frame[i]]

\* log_returns.index[pred_idx + sequence_length - 1]
AnchorDate(p) == p + sequence_length - 1

\* cells 5-8 and the head of cell 10 (lines 116-192, 239-241)
Prepare ==
    /\ pc = "start"
    /\ LET c == combined(rows)
           seqs == create_sequences(c, c, sequence_length)
           n == PyLen(seqs.Xs)
       IN /\ features' = c /\ targets' = c
          /\ X_all' = seqs.Xs /\ y_all' = seqs.Ys
          /\ IF n > 0
             THEN /\ initial_train_size' = InitialTrainSize(n)
                  /\ n_steps' = NSteps(n)
                  /\ pc' = IF NSteps(n) > 0 THEN "step_begin" ELSE "done"
             ELSE /\ pc' = "aborted"      \* assert N > 0
                  /\ UNCHANGED <<initial_train_size, n_steps>>
    /\ UNCHANGED riskvars
    /\ UNCHANGED <<rows, results, t, train_end_idx, pred_idx, X_train,
                   scaler_X, scaler_y, params, opt_steps, best_loss, wait,
                   best_model_state, epoch, batch, loss, training,
                   X_pred_scaled, mc_predictions, log7_window, epoch_loss,
                   epoch_params>>

\* lines 246-271
StepBegin ==
    /\ pc = "step_begin"
    /\ train_end_idx' = initial_train_size + t
    /\ pred_idx' = train_end_idx'
    /\ X_train' = TrainSlice(train_end_idx', N)
    /\ scaler_X' = StandardScalerFit(X_train')
    /\ scaler_y' = StandardScalerFit(X_train')
    /\ params' = model_parameters(params)
    /\ best_loss' = Inf
    /\ wait' = 0
    /\ best_model_state' = state_dict(params)
    /\ epoch' = 0
    /\ epoch_loss' = <<>> /\ epoch_params' = <<>>
    /\ pc' = IF num_epochs > 0 THEN "epoch_begin" ELSE "restore"
    /\ UNCHANGED riskvars
    /\ UNCHANGED <<rows, features, targets, X_all, y_all, initial_train_size,
                   n_steps, results, t, opt_steps, batch, loss,
                   training, X_pred_scaled, mc_predictions, log7_window>>

\* line 275
EpochBegin ==
    /\ pc = "epoch_begin"
    /\ training' = train(training)
    /\ batch' = 0
    /\ pc' = IF NumBatches(Len(X_train)) > 0 THEN "batch" ELSE "epoch_end"
    /\ UNCHANGED riskvars
    /\ UNCHANGED <<rows, features, targets, X_all, y_all, initial_train_size,
                   n_steps, results, t, train_end_idx, pred_idx, X_train,
                   scaler_X, scaler_y, params, opt_steps, best_loss, wait,
                   best_model_state, epoch, loss, X_pred_scaled,
                   mc_predictions, log7_window, epoch_loss, epoch_params>>

\* lines 276-286: one mini-batch; optimizer.step() updates params in place
TrainBatch ==
    /\ pc = "batch"
    /\ \E l \in Losses : loss' = l
    /\ opt_steps' = opt_steps + 1
    /\ params' = opt_steps + 1
    /\ batch' = batch + 1
    /\ pc' = IF batch + 1 >= NumBatches(Len(X_train)) THEN "epoch_end"
             ELSE "batch"
    /\ UNCHANGED riskvars
    /\ UNCHANGED <<rows, features, targets, X_all, y_all, initial_train_size,
                   n_steps, results, t, train_end_idx, pred_idx, X_train,
                   scaler_X, scaler_y, best_loss, wait, best_model_state,
                   epoch, training, X_pred_scaled, mc_predictions,
                   log7_window, epoch_loss, epoch_params>>

\* lines 288-296 and the loop header of line 274
EpochEnd ==
    /\ pc = "epoch_end"
    /\ epoch_loss' = Append(epoch_loss, loss)
    /\ epoch_params' = Append(epoch_params, params)
    /\ IF Improved(loss, best_loss)
       THEN /\ best_loss' = loss
            /\ wait' = 0
            /\ best_model_state' = state_dict(params)
       ELSE /\ wait' = wait + 1
            /\ UNCHANGED <<best_loss, best_model_state>>
    /\ IF (~Improved(loss, best_loss) /\ ShouldStop(wait'))
          \/ epoch + 1 >= num_epochs
       THEN pc' = "restore" /\ epoch' = epoch
       ELSE pc' = "epoch_begin" /\ epoch' = epoch + 1
    /\ UNCHANGED riskvars
    /\ UNCHANGED <<rows, features, targets, X_all, y_all, initial_train_size,
                   n_steps, results, t, train_end_idx, pred_idx, X_train,
                   scaler_X, scaler_y, params, opt_steps, batch, loss,
                   training, X_pred_scaled, mc_predictions, log7_window>>

\* line 298
Restore ==
    /\ pc = "restore"
    /\ params' = load_state_dict(best_model_state, params)
    /\ pc' = "predict"
    /\ UNCHANGED riskvars
    /\ UNCHANGED <<rows, features, targets, X_all, y_all, initial_train_size,
                   n_steps, results, t, train_end_idx, pred_idx, X_train,
                   scaler_X, scaler_y, opt_steps, best_loss, wait,
                   best_model_state, epoch, batch, loss, training,
                   X_pred_scaled, mc_predictions, log7_window, epoch_loss,
                   epoch_params>>

\* lines 301-315
Predict ==
    /\ pc = "predict"
    /\ X_pred_scaled' = [windows |-> {i \in DOMAIN X_all : i = pred_idx},
                         scaler |-> scaler_X]
    /\ training' = enable_dropout(eval(training))
    /\ mc_predictions' = <<>>
    /\ pc' = IF mc_samples > 0 THEN "mc" ELSE "aggregate"
    /\ UNCHANGED riskvars
    /\ UNCHANGED <<rows, features, targets, X_all, y_all, initial_train_size,
                   n_steps, results, t, train_end_idx, pred_idx, X_train,
                   scaler_X, scaler_y, params, opt_steps, best_loss, wait,
                   best_model_state, epoch, batch, loss, log7_window,
                   epoch_loss, epoch_params>>

\* lines 316-317: one stochastic forward pass
MCPass ==
    /\ pc = "mc"
    /\ mc_predictions' = Append(mc_predictions, forward(training))
    /\ pc' = IF Len(mc_predictions) + 1 >= mc_samples THEN "aggregate"
             ELSE "mc"
    /\ UNCHANGED riskvars
    /\ UNCHANGED <<rows, features, targets, X_all, y_all, initial_train_size,
                   n_steps, results, t, train_end_idx, pred_idx, X_train,
                   scaler_X, scaler_y, params, opt_steps, best_loss, wait,
                   best_model_state, epoch, batch, loss, training,
                   X_pred_scaled, log7_window, epoch_loss, epoch_params>>

\* lines 318-395; the numeric payload of the record (weights, correlation)
\* is modelled by RiskWeights and RiskCorr below
Aggregate ==
    /\ pc = "aggregate"
    /\ LET w == ILocHead(log7(rows), pred_idx + sequence_length)
       IN IF PyLen(w) > 0 /\ AnchorDate(pred_idx) <= rows - 1
          THEN /\ log7_window' = w
               /\ results' = Append(results,
                      [step |-> t,
                       date |-> AnchorDate(pred_idx),
                       dir_acc |-> IF pred_idx >= horizon THEN "array"
                                   ELSE "None"])
               /\ t' = t + 1
               /\ pc' = IF t + 1 < n_steps THEN "step_begin" ELSE "done"
          ELSE /\ pc' = "error"          \* IndexError
               /\ UNCHANGED <<log7_window, results, t>>
    /\ UNCHANGED riskvars
    /\ UNCHANGED <<rows, features, targets, X_all, y_all, initial_train_size,
                   n_steps, train_end_idx, pred_idx, X_train, scaler_X,
                   scaler_y, params, opt_steps, best_loss, wait,
                   best_model_state, epoch, batch, loss, training,
                   X_pred_scaled, mc_predictions, epoch_loss, epoch_params>>

Next ==
    \/ Prepare
    \/ StepBegin
    \/ EpochBegin
    \/ TrainBatch
    \/ EpochEnd
    \/ Restore
    \/ Predict
    \/ MCPass
    \/ Aggregate

Spec == Init /\ [][Next]_vars

---------------------------------------------------------------------------
(* Properties of the walk-forward loop *)

MinLoss(h) == Min(Range(h))

TrainingOver == pc \in {"restore", "predict", "mc", "aggregate"}

\* C1: when Monte Carlo sampling starts, the model holds the parameters it
\* held at the end of the epoch with the lowest recorded last-batch loss of
\* this step.
C1_PredictsWithBestEpochParams ==
    (pc \in {"predict", "mc"} /\ Len(epoch_loss) > 0) =>
        \E e \in 1..Len(epoch_loss) :
            /\ epoch_loss[e] = MinLoss(epoch_loss)
            /\ params = epoch_params[e]

MaxOf(a, b) == IF a > b THEN a ELSE b

\* C3: create_sequences yields max(R - L, 0) windows; window i holds feature
\* rows i .. i+L-1 and its target is target row i+L-1; with R <= L there is
\* no window and the run aborts before the loop.
C3_Windows ==
    pc # "start" =>
        LET R == PyLen(features)
            L == sequence_length
            n == MaxOf(R - L, 0)
        IN /\ DOMAIN X_all = 0..(n - 1)
           /\ DOMAIN y_all = 0..(n - 1)
           /\ \A i \in 0..(n - 1) :
                 /\ DOMAIN X_all[i] = 0..(L - 1)
                 /\ \A k \in 0..(L - 1) : X_all[i][k] = features[i + k]
                 /\ y_all[i] = targets[i + L - 1]
           /\ (R <= L) => (pc = "aborted" /\ results = <<>>)
           /\ (R > L) => pc # "aborted"

C3_Witness == pc = "step_begin" /\ PyLen(X_all) >= 2 /\ t = 0

\* C4: after the loop the result list holds exactly
\* N - floor(train_fraction * N) - H records (none if that is not positive),
\* the k-th record has step index k, each step appends exactly one record
\* and appended records are never changed or removed.
C4_ResultsShape ==
    /\ \A k \in 1..Len(results) : results[k].step = k - 1
    /\ pc \in {"step_begin", "epoch_begin", "batch", "epoch_end", "restore",
               "predict", "mc", "aggregate"} => Len(results) = t
    /\ pc = "done" =>
          Len(results) = MaxOf(N - ((80 * N) \div 100) - horizon, 0)

C4_AppendOnly ==
    \/ results' = results
    \/ /\ pc = "aggregate"
       /\ Len(results') = Len(results) + 1
       /\ SubSeq(results', 1, Len(results)) = results

C4_Results == [](C4_ResultsShape) /\ [][C4_AppendOnly]_vars

C4_Witness == pc = "done" /\ Len(results) >= 2

\* C5: every Monte Carlo forward pass runs with the encoder in evaluation
\* mode and the head dropout active; every training batch of every step runs
\* with encoder and dropout in training mode.
C5_Modes ==
    /\ pc = "mc" => (~training["lstm"] /\ training["dropout"])
    /\ \A i \in 1..Len(mc_predictions) :
          mc_predictions[i] = [encoder |-> "eval", head_dropout |-> "active"]
    /\ pc = "batch" => (training["lstm"] /\ training["dropout"])

C5_Witness == pc = "batch" /\ t >= 1 /\ Len(mc_predictions) = mc_samples

\* C7: every daily log return entering the correlation estimate of a step is
\* dated at or before the anchor date recorded in that step's result.
C7_NoReturnAfterAnchor ==
    Len(results) > 0 =>
        \A i \in DOMAIN log7_window :
            \A d \in log7_window[i].terms :
                d <= results[Len(results)].date

\* C8 (as stated): two different rows of the H-day series sum disjoint sets
\* of daily log returns.
C8_NonOverlapping ==
    \A i, j \in DOMAIN log7_window :
        i # j => log7_window[i].terms \cap log7_window[j].terms = {}

\* C8 (amended): the H-day series has one row per day; the row dated d sums
\* the H daily log returns dated d-H+1 .. d, and two different rows share a
\* daily return exactly when their dates are fewer than H days apart.
C8_RollingSums ==
    \A i \in DOMAIN log7_window :
        /\ log7_window[i].terms =
              (log7_window[i].date - horizon + 1)..log7_window[i].date
        /\ Cardinality(log7_window[i].terms) = horizon
        /\ \A j \in DOMAIN log7_window :
              /\ log7_window[j].date - log7_window[i].date = j - i
              /\ i < j =>
                   ((log7_window[i].terms \cap log7_window[j].terms = {})
                      <=> (j - i >= horizon))

C8_Witness ==
    /\ pc = "done"
    /\ PyLen(log7_window) > horizon
    /\ log7_window[0].terms \cap log7_window[1].terms # {}

NonImproving(h, e) ==
    e > 1 /\ h[e] >= MinLoss(SubSeq(h, 1, e - 1))

PatienceRunEndsAt(h, e) ==
    /\ e >= patience
    /\ \A j \in (e - patience + 1)..e : NonImproving(h, j)

RECURSIVE TrailingRun(_, _)
TrailingRun(h, e) ==
    IF e >= 1 /\ NonImproving(h, e) THEN 1 + TrailingRun(h, e - 1) ELSE 0

InTraining == pc \in {"epoch_begin", "batch", "epoch_end"}

\* Early-stopping bookkeeping: training runs at most num_epochs epochs and ends exactly
\* at the first epoch completing `patience` consecutive non-improving epochs
\* (or at the cap); the counter is the length of the current non-improving
\* run; once an epoch has run, a best loss and a best snapshot are recorded.
C9_EarlyStopping ==
    LET n == Len(epoch_loss)
    IN /\ n <= num_epochs
       /\ (InTraining \/ TrainingOver) =>
             /\ wait = TrailingRun(epoch_loss, n)
             /\ best_model_state.ref # "none"
             /\ n >= 1 => best_loss = MinLoss(epoch_loss)
             /\ \A e \in 1..(n - 1) : ~PatienceRunEndsAt(epoch_loss, e)
       /\ InTraining =>
             /\ n < num_epochs
             /\ ~PatienceRunEndsAt(epoch_loss, n)
       /\ TrainingOver =>
             /\ n >= 1
             /\ best_loss = epoch_loss[1] \/ best_loss < epoch_loss[1]
             /\ PatienceRunEndsAt(epoch_loss, n) \/ n = num_epochs

\* Epoch and batch work still ahead of the training loop of this step
TrainingRank ==
    LET nb == NumBatches(Len(X_train))
        ahead == (num_epochs - Len(epoch_loss)) * (nb + 2)
    IN IF pc = "epoch_begin" THEN ahead + nb + 1
       ELSE IF pc = "batch" THEN ahead + (nb - batch)
       ELSE IF pc = "epoch_end" THEN ahead
       ELSE 0

C9_Progress ==
    InTraining =>
        /\ pc' \in {"epoch_begin", "batch", "epoch_end", "restore"}
        /\ TrainingRank' >= 0
        /\ TrainingRank' < TrainingRank

C10_SplitShape ==
    (InTraining \/ TrainingOver) =>
        /\ X_train = PyRange(initial_train_size + t)
        /\ pred_idx = initial_train_size + t
        /\ pred_idx \in DOMAIN X_all
        /\ pred_idx < N
        /\ pred_idx \notin Range(X_train)
        /\ scaler_X.fit = Range(X_train)
        /\ scaler_y.fit = Range(X_train)
        /\ pc \in {"mc", "aggregate"} =>
              /\ X_pred_scaled.windows = {pred_idx}
              /\ X_pred_scaled.scaler.fit =
                    0..(initial_train_size + t - 1)

C10_Expanding ==
    (pc = "step_begin" /\ t > 0) => X_train' = Append(X_train, pred_idx)

C10_TrainSplit == [](C10_SplitShape) /\ [][C10_Expanding]_vars

C10_Witness == pc = "mc" /\ t >= 1 /\ Len(X_train) > batch_size

---------------------------------------------------------------------------
(* Risk aggregator: floating-point values as exact rationals or the        *)
(* special values nan, +inf, -inf                                          *)

Abs(x) == IF x < 0 THEN -x ELSE x

RECURSIVE GCD(_, _)
GCD(a, b) == IF b = 0 THEN a ELSE GCD(b, a % b)

NaN == [k |-> "nan", n |-> 0, d |-> 1]
PosInf == [k |-> "inf", n |-> 1, d |-> 1]
NegInf == [k |-> "ninf", n |-> -1, d |-> 1]

\* the number n/d (d # 0) in lowest terms with positive denominator
Fin(n, d) ==
    LET g == GCD(Abs(n), Abs(d))
        sg == IF d < 0 THEN -1 ELSE 1
    IN [k |-> "fin", n |-> sg * (n \div g), d |-> sg * (d \div g)]

Sign(x) == IF x.n > 0 THEN 1 ELSE IF x.n < 0 THEN -1 ELSE 0

FAdd(a, b) ==
    IF a.k = "nan" \/ b.k = "nan" THEN NaN
    ELSE IF a.k = "fin" /\ b.k = "fin"
         THEN LET g == GCD(a.d, b.d)
              IN Fin(a.n * (b.d \div g) + b.n * (a.d \div g),
                     (a.d \div g) * b.d)
    ELSE IF a.k = "fin" THEN b
    ELSE IF b.k = "fin" \/ a.k = b.k THEN a
    ELSE NaN

FMul(a, b) ==
    IF a.k = "nan" \/ b.k = "nan" THEN NaN
    ELSE IF a.k = "fin" /\ b.k = "fin" THEN Fin(a.n * b.n, a.d * b.d)
    ELSE IF Sign(a) * Sign(b) = 0 THEN NaN
    ELSE IF Sign(a) * Sign(b) > 0 THEN PosInf ELSE NegInf

FDiv(a, b) ==
    IF a.k = "nan" \/ b.k = "nan" THEN NaN
    ELSE IF a.k = "fin" /\ b.k = "fin"
         THEN IF b.n # 0
              THEN LET gn == IF a.n = 0 THEN Abs(b.n)
                             ELSE GCD(Abs(a.n), Abs(b.n))
                       gd == GCD(a.d, b.d)
                   IN Fin((a.n \div gn) * (b.d \div gd),
                          (a.d \div gd) * (b.n \div gn))
              ELSE IF a.n = 0 THEN NaN
              ELSE IF a.n > 0 THEN PosInf ELSE NegInf
    ELSE IF a.k = "fin" THEN Fin(0, 1)
    ELSE IF b.k # "fin" THEN NaN
    ELSE IF Sign(a) * (IF b.n < 0 THEN -1 ELSE 1) > 0 THEN PosInf
    ELSE NegInf

FLt(a, b) ==
    /\ a.k # "nan" /\ b.k # "nan"
    /\ IF a.k = "fin" /\ b.k = "fin" THEN a.n * b.d < b.n * a.d
       ELSE IF a.k = "ninf" THEN b.k # "ninf"
       ELSE IF a.k = "fin" THEN b.k = "inf"
       ELSE FALSE

FLe(a, b) == FLt(a, b) \/ (a.k # "nan" /\ a = b)

\* np.sqrt on a value with an exact root; nan below zero
FSqrt(a) ==
    IF a.k = "nan" \/ a.k = "ninf" \/ (a.k = "fin" /\ a.n < 0) THEN NaN
    ELSE IF a.k = "inf" THEN PosInf
    ELSE Fin(CHOOSE r \in 0..a.n : r * r = a.n,
             CHOOSE r \in 1..a.d : r * r = a.d)

RECURSIVE FSum(_, _)
\* v.sum() over positions 1..m
FSum(v, m) == IF m = 0 THEN Fin(0, 1) ELSE FAdd(FSum(v, m - 1), v[m])

\* number of assets (len(close_cols)); 1e-6
asset_count == 2
Assets == 1..asset_count
Eps == Fin(1, 1000000)

\* bounds on the drawn inputs
MaxStdMicro == 9
MaxAssetStd == 3

\* variant: the weight grows with the uncertainty
InverseUncertainty_direct(sd) == FAdd(sd, Eps)

\* line 338: 1 / (y_pred_std[0] + 1e-6), per asset
InverseUncertainty(sd) == FDiv(Fin(1, 1), FAdd(sd, Eps))

\* lines 338-339
AllocationWeights(sd) ==
    LET w == [i \in Assets |-> InverseUncertainty(sd[i])]
        total == FSum(w, asset_count)
    IN [i \in Assets |-> FDiv(w[i], total)]

\* np.diag(cov_matrix)
diag(m) == [i \in Assets |-> m[i][i]]

\* np.outer(a, b)
outer(a, b) == [i \in Assets |-> [j \in Assets |-> FMul(a[i], b[j])]]

\* np.nan_to_num(x, nan=, posinf=, neginf=), elementwise
nan_to_num(x, nanv, posinfv, neginfv) ==
    [i \in Assets |-> [j \in Assets |->
        IF x[i][j].k = "nan" THEN nanv
        ELSE IF x[i][j].k = "inf" THEN posinfv
        ELSE IF x[i][j].k = "ninf" THEN neginfv
        ELSE x[i][j]]]

\* np.clip(x, lo, hi), elementwise
clip(x, lo, hi) ==
    [i \in Assets |-> [j \in Assets |->
        IF FLt(x[i][j], lo) THEN lo
        ELSE IF FLt(hi, x[i][j]) THEN hi
        ELSE x[i][j]]]

\* lines 367-371
CorrelationMatrix(cov) ==
    LET variances == diag(cov)
        stds == [i \in Assets |-> FSqrt(variances[i])]
        den == outer(stds, stds)
        raw == [i \in Assets |-> [j \in Assets |->
                   FDiv(cov[i][j], den[i][j])]]
        cleaned == nan_to_num(raw, Fin(0, 1), Fin(1, 1), Fin(-1, 1))
    IN clip(cleaned, Fin(-1, 1), Fin(1, 1))

\* predictive standard deviations in units of 1e-6: mc_predictions.std() *
\* scaler_y.scale_ is finite and not negative
StdVectors ==
    [Assets -> {Fin(u, 1000000) : u \in 0..MaxStdMicro}]

AssetPairs == {p \in Assets \X Assets : p[1] < p[2]}

CovFrom(sd, c) ==
    [i \in Assets |-> [j \in Assets |->
        IF i = j THEN Fin(sd[i] * sd[i], 1)
        ELSE IF i < j THEN Fin(c[<<i, j>>], 1)
        ELSE Fin(c[<<j, i>>], 1)]]

Det3(m, i, j, k) ==
    m[i][i].n * m[j][j].n * m[k][k].n
    + 2 * m[i][j].n * m[i][k].n * m[j][k].n
    - m[i][i].n * m[j][k].n * m[j][k].n
    - m[j][j].n * m[i][k].n * m[i][k].n
    - m[k][k].n * m[i][j].n * m[i][j].n

\* positive semi-definite (all principal minors up to order 3)
IsPSD(m) ==
    /\ \A i, j \in Assets :
          m[i][j].n * m[i][j].n <= m[i][i].n * m[j][j].n
    /\ \A i, j, k \in Assets :
          (i < j /\ j < k) => Det3(m, i, j, k) >= 0

\* latest slice of window_data.ewm(span=horizon).cov(): symmetric, positive
\* semi-definite; an asset with a constant return series has variance 0
CovMatrices ==
    {m \in {CovFrom(sd, c) :
              sd \in [Assets -> 0..MaxAssetStd],
              c \in [AssetPairs ->
                       (-(MaxAssetStd * MaxAssetStd))
                          ..(MaxAssetStd * MaxAssetStd)]} : IsPSD(m)}

InitWeights ==
    /\ rows = MaxRows
    /\ pc = "weights"
    /\ LoopStart
    /\ y_pred_std \in StdVectors
    /\ weights = <<>> /\ cov_matrix = <<>> /\ corr_matrix = <<>>

\* lines 338-339
RiskWeights ==
    /\ pc = "weights"
    /\ weights' = AllocationWeights(y_pred_std)
    /\ pc' = "weights_done"
    /\ UNCHANGED <<loopvars, y_pred_std, cov_matrix, corr_matrix>>

SpecWeights == InitWeights /\ [][RiskWeights]_vars

InitCorr ==
    /\ rows = MaxRows
    /\ pc = "corr"
    /\ LoopStart
    /\ cov_matrix \in CovMatrices
    /\ y_pred_std = <<>> /\ weights = <<>> /\ corr_matrix = <<>>

\* lines 367-371
RiskCorr ==
    /\ pc = "corr"
    /\ corr_matrix' = CorrelationMatrix(cov_matrix)
    /\ pc' = "corr_done"
    /\ UNCHANGED <<loopvars, y_pred_std, weights, cov_matrix>>

SpecCorr == InitCorr /\ [][RiskCorr]_vars

\* C2: the sanitized correlation matrix is symmetric, has unit diagonal and
\* all entries in [-1, 1], also when an asset has zero variance.
C2_CorrelationWellFormed ==
    pc = "corr_done" =>
        \A i, j \in Assets :
            /\ corr_matrix[i][j] = corr_matrix[j][i]
            /\ corr_matrix[i][i] = Fin(1, 1)
            /\ FLe(Fin(-1, 1), corr_matrix[i][j])
            /\ FLe(corr_matrix[i][j], Fin(1, 1))

\* C6: for finite predictive standard deviations every allocation weight is
\* strictly positive, the weights sum to 1, and a larger standard deviation
\* never gets a larger weight.
C6_Weights ==
    pc = "weights_done" =>
        /\ \A i \in Assets : FLt(Fin(0, 1), weights[i])
        /\ FSum(weights, asset_count) = Fin(1, 1)
        /\ \A i, j \in Assets :
              FLt(y_pred_std[j], y_pred_std[i]) =>
                  ~FLt(weights[j], weights[i])

C6_Witness ==
    /\ pc = "weights_done"
    /\ y_pred_std[1] = Fin(0, 1)
    /\ FLt(y_pred_std[1], y_pred_std[2])
    /\ FLt(weights[2], weights[1])

ParamWriters == {"batch", "restore"}

C11_OnlyTrainerWrites ==
    /\ pc \notin ParamWriters => params' = params
    /\ pc = "restore" => params' \in Range(epoch_params) \cup {params}
    /\ pc = "batch" => opt_steps' = opt_steps + 1

C11_WarmStartShape ==
    /\ (pc \in {"step_begin", "epoch_begin"} /\ t >= 1 /\ epoch = 0) =>
          /\ params >= 1
          /\ pc = "step_begin" => params \in Range(epoch_params)
    /\ (pc = "batch" /\ t >= 1 /\ epoch = 0 /\ batch = 0) => params >= 1

\* C11: the model is created once and never reinitialized: sampling,
\* metrics, risk aggregation and the start of the next step leave the
\* parameters unchanged, so step t+1 starts training from the parameters
\* held when step t finished; only training batches and the snapshot
\* restore write them.
C11_WarmStart == [](C11_WarmStartShape) /\ [][C11_OnlyTrainerWrites]_vars

C11_Witness ==
    /\ pc = "epoch_begin" /\ epoch = 0 /\ t >= 1
    /\ params >= 1 /\ params = opt_steps
    /\ Len(results) = t
=============================================================================
